---- MODULE Spec2Model ----
(***************************************************************************)
(* Contact-management backend: the HTTP handlers (package handlers), the   *)
(* business validation (package models) and the GORM repository (package   *)
(* repository), modelled over a relational store of contact rows and       *)
(* additional-phone rows.  Spec and SpecFaults handle requests one at a    *)
(* time; SpecConcurrent interleaves the database calls of requests that    *)
(* are handled at the same time.                                           *)
(*                                                                         *)
(* Strings are sequences of one-character strings, so that trimming,       *)
(* digit-stripping and the e-mail pattern are computed, not assumed.       *)
(***************************************************************************)
EXTENDS Integers, Sequences, FiniteSets, Bags, TLC

(***************************************************************************)
(* Bounds of the model.                                                    *)
(***************************************************************************)
\* Contact ids ever handed out by the serial primary key.
MaxContactID == 2
\* Longest additionalPhones array of a request body.
MaxAddl == 2
\* Most data rows of an uploaded CSV file.
MaxRows == 2

(***************************************************************************)
(* Characters.                                                             *)
(***************************************************************************)
Digits == {"0", "1", "2", "3", "4", "5", "6", "7", "8", "9"}

Lower == {"a", "b", "c", "d", "e", "f", "g", "h", "i", "j", "k", "l", "m",
          "n", "o", "p", "q", "r", "s", "t", "u", "v", "w", "x", "y", "z"}

Upper == {"A", "B", "C", "D", "E", "F", "G", "H", "I", "J", "K", "L", "M",
          "N", "O", "P", "Q", "R", "S", "T", "U", "V", "W", "X", "Y", "Z"}

Letters == Lower \cup Upper

\* unicode.IsSpace restricted to the characters the inputs use
Spaces == {" "}

(***************************************************************************)
(* package models: helper functions                                        *)
(***************************************************************************)
\* regexp `\D` ReplaceAllString(s, ""): drop every non-digit character
RECURSIVE StripNonDigits(_)
StripNonDigits(s) ==
    IF s = <<>> THEN <<>>
    ELSE IF Head(s) \in Digits THEN <<Head(s)>> \o StripNonDigits(Tail(s))
         ELSE StripNonDigits(Tail(s))

\* strings.TrimSpace
RECURSIVE TrimLeft(_)
TrimLeft(s) ==
    IF s # <<>> /\ Head(s) \in Spaces THEN TrimLeft(Tail(s)) ELSE s

RECURSIVE TrimRight(_)
TrimRight(s) ==
    IF s # <<>> /\ s[Len(s)] \in Spaces
    THEN TrimRight(SubSeq(s, 1, Len(s) - 1)) ELSE s

TrimSpace(s) == TrimRight(TrimLeft(s))

MinPhoneDigits == 10
MaxPhoneDigits == 15

\* isValidPhone: 10 to 15 digits once the non-digits are removed
isValidPhone(phone) ==
    LET cleaned == StripNonDigits(phone)
    IN  Len(cleaned) >= MinPhoneDigits /\ Len(cleaned) <= MaxPhoneDigits

\* formatPhoneNumber
formatPhoneNumber(phone) == StripNonDigits(phone)

\* isValidEmail: ^[a-zA-Z0-9._%+-]+@[a-zA-Z0-9.-]+\.[a-zA-Z]{2,}$
EmailLocalChars == Letters \cup Digits \cup {".", "_", "%", "+", "-"}
EmailDomainChars == Letters \cup Digits \cup {".", "-"}
MinTldLen == 2

isValidEmail(email) ==
    \E at \in 1..Len(email), dot \in 1..Len(email) :
        /\ email[at] = "@"
        /\ at > 1
        /\ \A i \in 1..(at - 1) : email[i] \in EmailLocalChars
        /\ dot > at + 1
        /\ email[dot] = "."
        /\ \A i \in (at + 1)..(dot - 1) : email[i] \in EmailDomainChars
        /\ Len(email) - dot >= MinTldLen
        /\ \A i \in (dot + 1)..Len(email) : email[i] \in Letters

(***************************************************************************)
(* package models: Contact.Validate and Contact.FormatPhoneNumbers         *)
(***************************************************************************)
\* key := phone.Number + "-" + phone.Type
PhoneKey(phone) == phone.number \o <<"-">> \o phone.type

\* the phoneSet loop: some key occurs at two positions
HasDuplicatePhoneKey(phones) ==
    \E i, j \in 1..Len(phones) :
        i < j /\ PhoneKey(phones[i]) = PhoneKey(phones[j])

\* Validate returns nil ("ok") or the first error
Validate(c) ==
    IF TrimSpace(c.firstName) = <<>> THEN "first name is required"
    ELSE IF TrimSpace(c.lastName) = <<>> THEN "last name is required"
    ELSE IF ~isValidEmail(c.email) THEN "invalid email format"
    ELSE IF ~isValidPhone(c.primaryPhone) THEN "invalid primary phone format"
    ELSE IF HasDuplicatePhoneKey(c.additionalPhones)
         THEN "duplicate phone numbers are not allowed"
    ELSE "ok"

FormatPhoneNumbers(c) ==
    [c EXCEPT !.primaryPhone = formatPhoneNumber(c.primaryPhone),
              !.additionalPhones =
                  [i \in 1..Len(c.additionalPhones) |->
                      [c.additionalPhones[i] EXCEPT
                          !.number = formatPhoneNumber(c.additionalPhones[i].number)]]]

(***************************************************************************)
(* The relational store.  db.contacts is the contacts table, one record    *)
(* per row (types.Contact without its association); db.phones is the       *)
(* phones table as a bag of rows (types.Phone without its own serial key,  *)
(* which no handler reads): a row inserted twice is in the bag twice.      *)
(***************************************************************************)
EmptyDB == [contacts |-> {}, phones |-> EmptyBag]

RECURSIVE SeqToBag(_)
SeqToBag(s) ==
    IF s = <<>> THEN EmptyBag ELSE SetToBag({Head(s)}) (+) SeqToBag(Tail(s))

\* the rows of bag B that satisfy Keep
BagFilter(B, Keep(_)) == [r \in {x \in DOMAIN B : Keep(x)} |-> B[r]]

\* contact.AdditionalPhones[i].ContactID = contact.ID, as rows of the phones table
PhoneRows(id, additionalPhones) ==
    SeqToBag([i \in 1..Len(additionalPhones) |->
                 [contactID |-> id,
                  number |-> additionalPhones[i].number,
                  type |-> additionalPhones[i].type]])

ContactRow(id, c) ==
    [id |-> id, firstName |-> c.firstName, lastName |-> c.lastName,
     email |-> c.email, primaryPhone |-> c.primaryPhone]

\* Email is `gorm:"unique;not null"`: an insert or update of a row whose email
\* another row holds violates the unique index
EmailUniqueViolation(db, email, selfID) ==
    \E c \in db.contacts : c.email = email /\ c.id # selfID

(***************************************************************************)
(* package repository.  A repository call that changes the store returns   *)
(* [err, hit, db]: err is the error result, db the store it leaves, and    *)
(* hit says that the injected persistence fault `fault` was reached.       *)
(* fault names the one database call of the request that fails, or "none". *)
(***************************************************************************)
Faults == {"none", "FindByEmail", "FindByID", "CheckDuplicatePhone",
           "SaveContact", "DeletePhones", "CreatePhones", "DeleteContact",
           "List", "ImportContacts"}

\* CheckDuplicatePhone: the two Count queries
CheckDuplicatePhone(db, phoneNumber, excludeContactID) ==
    LET inContacts == {c \in db.contacts :
                          /\ c.primaryPhone = phoneNumber
                          /\ (excludeContactID > 0 => c.id # excludeContactID)}
        Match(r) == /\ r.number = phoneNumber
                    /\ (excludeContactID > 0 => r.contactID # excludeContactID)
    IN  IF Cardinality(inContacts) > 0 THEN TRUE
        ELSE BagCardinality(BagFilter(db.phones, Match)) > 0

\* the duplicate checks that open Create and Update
AnyDuplicatePhone(db, contact, excludeContactID) ==
    \/ CheckDuplicatePhone(db, contact.primaryPhone, excludeContactID)
    \/ \E i \in 1..Len(contact.additionalPhones) :
          CheckDuplicatePhone(db, contact.additionalPhones[i].number, excludeContactID)

\* db.Create(contact.Contact) / db.Save(contact.Contact): one statement in
\* GORM's default transaction that writes the contact row and upserts the
\* populated AdditionalPhones association (no Omit of the association)
SaveWithAssociations(db, id, contact) ==
    [contacts |-> {c \in db.contacts : c.id # id} \cup {ContactRow(id, contact)},
     phones |-> db.phones (+) PhoneRows(id, contact.additionalPhones)]

\* Unscoped().Where("contact_id = ?", id).Delete(&types.Phone{})
DeletePhonesOf(db, id) ==
    LET Other(r) == r.contactID # id
    IN  [db EXCEPT !.phones = BagFilter(db.phones, Other)]

\* db.Create(&contact.AdditionalPhones) with every ID reset to 0
InsertPhones(db, id, additionalPhones) ==
    [db EXCEPT !.phones = db.phones (+) PhoneRows(id, additionalPhones)]

\* GormContactRepository.Create; id is the next value of the serial key
RepoCreate(db, id, contact, fault) ==
    IF fault = "CheckDuplicatePhone" THEN [err |-> TRUE, hit |-> TRUE, db |-> db]
    ELSE IF AnyDuplicatePhone(db, contact, 0)
         THEN [err |-> TRUE, hit |-> FALSE, db |-> db]
    ELSE IF fault = "SaveContact" THEN [err |-> TRUE, hit |-> TRUE, db |-> db]
    ELSE IF EmailUniqueViolation(db, contact.email, id)
         THEN [err |-> TRUE, hit |-> FALSE, db |-> db]
    ELSE LET saved == SaveWithAssociations(db, id, contact)
         IN  IF Len(contact.additionalPhones) = 0
             THEN [err |-> FALSE, hit |-> FALSE, db |-> saved]
             ELSE IF fault = "CreatePhones"
                  THEN [err |-> TRUE, hit |-> TRUE, db |-> saved]
             ELSE [err |-> FALSE, hit |-> FALSE,
                   db |-> InsertPhones(saved, id, contact.additionalPhones)]

\* GormContactRepository.Update
RepoUpdate(db, id, contact, fault) ==
    IF fault = "CheckDuplicatePhone" THEN [err |-> TRUE, hit |-> TRUE, db |-> db]
    ELSE IF AnyDuplicatePhone(db, contact, id)
         THEN [err |-> TRUE, hit |-> FALSE, db |-> db]
    ELSE IF fault = "SaveContact" THEN [err |-> TRUE, hit |-> TRUE, db |-> db]
    ELSE IF EmailUniqueViolation(db, contact.email, id)
         THEN [err |-> TRUE, hit |-> FALSE, db |-> db]
    ELSE LET saved == SaveWithAssociations(db, id, contact)
             cleared == DeletePhonesOf(saved, id)
         IN  IF fault = "DeletePhones"
             THEN [err |-> TRUE, hit |-> TRUE, db |-> saved]
             ELSE IF Len(contact.additionalPhones) = 0
                  THEN [err |-> FALSE, hit |-> FALSE, db |-> cleared]
             ELSE IF fault = "CreatePhones"
                  THEN [err |-> TRUE, hit |-> TRUE, db |-> cleared]
             ELSE [err |-> FALSE, hit |-> FALSE,
                   db |-> InsertPhones(cleared, id, contact.additionalPhones)]

\* Delete without its first statement: the contact row goes, its phone rows stay
RepoDelete_KeepsPhones(db, id, fault) ==
    IF fault = "DeleteContact" THEN [err |-> TRUE, hit |-> TRUE, db |-> db]
    ELSE [err |-> FALSE, hit |-> FALSE,
          db |-> [db EXCEPT !.contacts = {c \in db.contacts : c.id # id}]]

\* GormContactRepository.Delete
RepoDelete(db, id, fault) ==
    IF fault = "DeletePhones" THEN [err |-> TRUE, hit |-> TRUE, db |-> db]
    ELSE LET cleared == DeletePhonesOf(db, id)
         IN  IF fault = "DeleteContact"
             THEN [err |-> TRUE, hit |-> TRUE, db |-> cleared]
             ELSE [err |-> FALSE, hit |-> FALSE,
                   db |-> [cleared EXCEPT
                              !.contacts = {c \in cleared.contacts : c.id # id}]]

\* Preload("AdditionalPhones"): a contact row with its nested phone rows
WithPhones(db, c) ==
    LET Mine(r) == r.contactID = c.id
    IN  [id |-> c.id, firstName |-> c.firstName, lastName |-> c.lastName,
         email |-> c.email, primaryPhone |-> c.primaryPhone,
         additionalPhones |-> BagFilter(db.phones, Mine)]

\* GormContactRepository.FindByID: the set holding the row found, {} when
\* First returns an error (record not found)
FindByID(db, id) == {WithPhones(db, c) : c \in {x \in db.contacts : x.id = id}}

\* GormContactRepository.FindByEmail, likewise
FindByEmail(db, email) ==
    {WithPhones(db, c) : c \in {x \in db.contacts : x.email = email}}

\* GormContactRepository.List
List(db) == {WithPhones(db, c) : c \in db.contacts}

\* GormContactRepository.ImportContacts: one batch INSERT.  ids[i] is the key
\* of the i-th row.  GORM refuses an empty slice (ErrEmptySlice); the unique
\* index on email fails the whole statement.
RepoImportContacts(db, firstID, contacts, fault) ==
    IF fault = "ImportContacts" THEN [err |-> TRUE, hit |-> TRUE, db |-> db]
    ELSE IF Len(contacts) = 0 THEN [err |-> TRUE, hit |-> FALSE, db |-> db]
    ELSE IF \/ \E i \in 1..Len(contacts) : EmailUniqueViolation(db, contacts[i].email, 0)
            \/ \E i, j \in 1..Len(contacts) :
                  i < j /\ contacts[i].email = contacts[j].email
         THEN [err |-> TRUE, hit |-> FALSE, db |-> db]
    ELSE [err |-> FALSE, hit |-> FALSE,
          db |-> [db EXCEPT !.contacts =
                     db.contacts \cup
                     {ContactRow(firstID + i - 1, contacts[i]) : i \in 1..Len(contacts)}]]

(***************************************************************************)
(* package handlers.  A handler's answer is [status, db, hit, resp,        *)
(* imported]: the HTTP status, the store it leaves, whether the injected   *)
(* fault was reached, the contacts of the response body (GET and list) and *)
(* the "imported" count (import).                                          *)
(***************************************************************************)
Answer(status, db, hit) ==
    [status |-> status, db |-> db, hit |-> hit, resp |-> {}, imported |-> 0]

\* the `email` tag of the binding validator: local@label.label (the library's
\* pattern, not this repository's; either failure answers 400)
BindingEmail(email) ==
    \E at \in 1..Len(email), dot \in 1..Len(email) :
        /\ email[at] = "@"
        /\ at > 1
        /\ dot > at + 1
        /\ email[dot] = "."
        /\ dot < Len(email)
        /\ \A i \in (1..Len(email)) \ {at} : email[i] # "@"

\* c.ShouldBindJSON(&req) on types.CreateContactRequest: the binding tags
ShouldBindJSON(req) ==
    /\ req.firstName # <<>>
    /\ req.lastName # <<>>
    /\ req.email # <<>>
    /\ BindingEmail(req.email)
    /\ req.primaryPhone # <<>>

\* CreateContact without the email lookup
CreateEmailTaken_NoLookup(db, email, fault) == FALSE

\* CreateContact: err == nil && existingContact != nil
CreateEmailTaken(db, email, fault) ==
    fault # "FindByEmail" /\ FindByEmail(db, email) # {}

\* UpdateContact's email check without the comparison of the IDs
UpdateEmailTaken_AnyContact(db, email, id, fault) ==
    fault # "FindByEmail" /\ FindByEmail(db, email) # {}

\* UpdateContact: err == nil && emailContact != nil && emailContact.ID != existing.ID
UpdateEmailTaken(db, email, id, fault) ==
    fault # "FindByEmail" /\ \E e \in FindByEmail(db, email) : e.id # id

\* ContactHandler.CreateContact; id is the next value of the serial key
CreateContactResp(db, id, req, fault) ==
    IF ~ShouldBindJSON(req) THEN Answer(400, db, FALSE)
    ELSE IF Validate(req) # "ok" THEN Answer(400, db, FALSE)
    ELSE LET contact == FormatPhoneNumbers(req)
         IN  IF CreateEmailTaken(db, req.email, fault) THEN Answer(409, db, FALSE)
             ELSE LET r == RepoCreate(db, id, contact, fault)
                  IN  Answer(IF r.err THEN 500 ELSE 201, r.db,
                             r.hit \/ fault = "FindByEmail")

\* strconv.ParseUint(c.Param("id"), 10, 32): a negative idParam stands for a
\* path segment that is no unsigned number
ParseUintFails(idParam) == idParam < 0

\* ContactHandler.UpdateContact
UpdateContactResp(db, idParam, req, fault) ==
    IF ParseUintFails(idParam) THEN Answer(400, db, FALSE)
    ELSE IF ~ShouldBindJSON(req) THEN Answer(400, db, FALSE)
    ELSE IF fault = "FindByID" THEN Answer(404, db, TRUE)
    ELSE IF FindByID(db, idParam) = {} THEN Answer(404, db, FALSE)
    ELSE IF Validate(req) # "ok" THEN Answer(400, db, FALSE)
    ELSE LET contact == FormatPhoneNumbers(req)
         IN  IF UpdateEmailTaken(db, req.email, idParam, fault)
             THEN Answer(409, db, FALSE)
             ELSE LET r == RepoUpdate(db, idParam, contact, fault)
                  IN  Answer(IF r.err THEN 500 ELSE 200, r.db,
                             r.hit \/ fault = "FindByEmail")

\* ContactHandler.DeleteContact
DeleteContactResp(db, idParam, fault) ==
    IF ParseUintFails(idParam) THEN Answer(400, db, FALSE)
    ELSE IF fault = "FindByID" THEN Answer(404, db, TRUE)
    ELSE IF FindByID(db, idParam) = {} THEN Answer(404, db, FALSE)
    ELSE LET r == RepoDelete(db, idParam, fault)
         IN  Answer(IF r.err THEN 500 ELSE 200, r.db, r.hit)

\* ContactHandler.GetContact
GetContactResp(db, idParam, fault) ==
    IF ParseUintFails(idParam) THEN Answer(400, db, FALSE)
    ELSE IF fault = "FindByID" THEN Answer(404, db, TRUE)
    ELSE IF FindByID(db, idParam) = {} THEN Answer(404, db, FALSE)
    ELSE [Answer(200, db, FALSE) EXCEPT !.resp = FindByID(db, idParam)]

\* ContactHandler.ListContacts
ListContactsResp(db, fault) ==
    IF fault = "List" THEN Answer(500, db, TRUE)
    ELSE [Answer(200, db, FALSE) EXCEPT !.resp = List(db)]

\* the contact built from one CSV row (no additional phones)
CsvContact(row) ==
    [firstName |-> row.firstName, lastName |-> row.lastName, email |-> row.email,
     primaryPhone |-> row.primaryPhone, additionalPhones |-> <<>>]

\* the loop over csvContacts: rows that fail Validate are skipped, the others
\* are formatted and appended
RECURSIVE ContactsToImport(_)
ContactsToImport(rows) ==
    IF rows = <<>> THEN <<>>
    ELSE LET contact == CsvContact(Head(rows))
         IN  IF Validate(contact) # "ok" THEN ContactsToImport(Tail(rows))
             ELSE <<FormatPhoneNumbers(contact)>> \o ContactsToImport(Tail(rows))

\* ContactHandler.ImportContacts; upload.kind tells how far the upload gets:
\* "nofile" (no form file), "notcsv" (name without .csv), "unreadable" (Open or
\* ReadAll fails), "badcsv" (gocsv.Unmarshal fails), "ok" (parsed into rows)
ImportContactsResp(db, firstID, upload, fault) ==
    IF upload.kind = "nofile" THEN Answer(400, db, FALSE)
    ELSE IF upload.kind = "notcsv" THEN Answer(400, db, FALSE)
    ELSE IF upload.kind = "unreadable" THEN Answer(500, db, FALSE)
    ELSE IF upload.kind = "badcsv" THEN Answer(400, db, FALSE)
    ELSE LET contactsToImport == ContactsToImport(upload.rows)
             r == RepoImportContacts(db, firstID, contactsToImport, fault)
         IN  IF r.err THEN Answer(500, r.db, r.hit)
             ELSE [Answer(200, r.db, r.hit) EXCEPT
                      !.imported = Len(contactsToImport)]

(***************************************************************************)
(* Inputs.                                                                 *)
(***************************************************************************)
NameAnn == <<"A", "n", "n">>
NameBob == <<"B", "o", "b">>
NameLee == <<"L", "e", "e">>
Blank == <<" ">>

EmailA == <<"a", "@", "x", ".", "i", "o">>
EmailB == <<"b", "@", "x", ".", "i", "o">>
\* passes the binding tag, fails isValidEmail (one-letter top-level domain)
EmailShortTld == <<"a", "@", "x", ".", "i">>
EmailNoAt == <<"a", "x", ".", "i", "o">>

\* "555-010-0001"
PhoneA == <<"5", "5", "5", "-", "0", "1", "0", "-", "0", "0", "0", "1">>
\* "5550100002"
PhoneB == <<"5", "5", "5", "0", "1", "0", "0", "0", "0", "2">>
\* "(555) 010-0002": PhoneB written with punctuation
PhoneBp == <<"(", "5", "5", "5", ")", " ", "0", "1", "0", "-", "0", "0", "0", "2">>
\* "555-0100": seven digits
PhoneShort == <<"5", "5", "5", "-", "0", "1", "0", "0">>

TypeHome == <<"h", "o", "m", "e">>
TypeWork == <<"w", "o", "r", "k">>

AddlEntries ==
    {[number |-> PhoneB, type |-> TypeHome],
     [number |-> PhoneB, type |-> TypeWork],
     [number |-> PhoneBp, type |-> TypeHome]}

SeqsUpTo(S, n) == UNION {[1..k -> S] : k \in 0..n}

AddlLists == SeqsUpTo(AddlEntries, MaxAddl)

Body(first, last, email, primary, addl) ==
    [firstName |-> first, lastName |-> last, email |-> email,
     primaryPhone |-> primary, additionalPhones |-> addl]

\* bodies that bind and have valid fields (Validate may still find a
\* duplicate additional phone)
\* (a second first name, to see a name change, comes without additional phones)
WellFormedBodies ==
    {Body(NameAnn, NameLee, email, primary, addl) :
        email \in {EmailA, EmailB}, primary \in {PhoneA, PhoneB}, addl \in AddlLists}
    \cup
    {Body(NameBob, NameLee, email, primary, <<>>) :
        email \in {EmailA, EmailB}, primary \in {PhoneA, PhoneB}}

\* one field of a well-formed body broken
BrokenBodies ==
    {Body(<<>>, NameLee, EmailA, PhoneA, <<>>),
     Body(Blank, NameLee, EmailA, PhoneA, <<>>),
     Body(NameAnn, Blank, EmailA, PhoneA, <<>>),
     Body(NameAnn, NameLee, EmailShortTld, PhoneA, <<>>),
     Body(NameAnn, NameLee, EmailNoAt, PhoneA, <<>>),
     Body(NameAnn, NameLee, EmailA, PhoneShort, <<>>),
     Body(NameAnn, NameLee, EmailA, <<>>, <<>>)}

Bodies == WellFormedBodies \cup BrokenBodies

NoBody == Body(<<>>, <<>>, <<>>, <<>>, <<>>)

CsvRow(first, last, email, primary) ==
    [firstName |-> first, lastName |-> last, email |-> email, primaryPhone |-> primary]

CsvRows ==
    {CsvRow(NameAnn, NameLee, EmailA, PhoneA),
     CsvRow(NameBob, NameLee, EmailB, PhoneA),
     CsvRow(NameBob, NameLee, EmailB, PhoneBp),
     CsvRow(Blank, NameLee, EmailA, PhoneB)}

Uploads ==
    {[kind |-> k, rows |-> <<>>] : k \in {"nofile", "notcsv", "unreadable", "badcsv"}}
    \cup {[kind |-> "ok", rows |-> rows] : rows \in SeqsUpTo(CsvRows, MaxRows)}

NoUpload == [kind |-> "none", rows |-> <<>>]

\* the :id path parameter; -1 is a segment ParseUint rejects
IdParams == {-1} \cup (1..MaxContactID)

(***************************************************************************)
(* State.                                                                  *)
(***************************************************************************)
VARIABLES
    db,      \* the store: contacts table and phones table
    nextID,  \* next value of the contacts table's serial key
    prev,    \* the store before the last request
    last,    \* the request just handled and its answer; op "none" when idle
    procs,   \* SpecConcurrent: the request each handler goroutine is serving
    started  \* SpecConcurrent: the number of requests received so far

vars == <<db, nextID, prev, last, procs, started>>

\* the goroutines that serve requests at the same time
Handlers == {"h1", "h2"}

\* a goroutine's request: op and pc "idle" when it serves none, else the
\* handler (op), the repository call it is about to make (pc), the :id or the
\* key of the created row (id), the contact built from the body, the index of
\* the next additional phone to check (i), and the status once pc = "done"
IdleProc ==
    [op |-> "idle", pc |-> "idle", id |-> 0, contact |-> NoBody, i |-> 0,
     status |-> 0, err |-> "none"]

Request(op, id, body, upload, fault, ans) ==
    [op |-> op, id |-> id, body |-> body, upload |-> upload, fault |-> fault,
     status |-> ans.status, resp |-> ans.resp, imported |-> ans.imported]

Idle == Request("none", 0, NoBody, NoUpload, "none", Answer(0, EmptyDB, FALSE))

Init ==
    /\ db = EmptyDB
    /\ nextID = 1
    /\ prev = EmptyDB
    /\ last = Idle
    /\ procs = [h \in Handlers |-> IdleProc]
    /\ started = 0

\* most rows of the phones table: what one Create of MaxAddl phones leaves
MaxPhoneRows == 2 * MaxAddl

\* the answer ans to a request becomes the state: the serial key advances by
\* the rows inserted into the contacts table and stays within MaxContactID
Handled(op, id, body, upload, fault, ans) ==
    LET inserted == Cardinality(ans.db.contacts \ db.contacts)
    IN  /\ ans.hit = (fault # "none")
        /\ nextID + inserted - 1 <= MaxContactID
        /\ BagCardinality(ans.db.phones) <= MaxPhoneRows
        /\ db' = ans.db
        /\ nextID' = nextID + inserted
        /\ prev' = db
        /\ last' = Request(op, id, body, upload, fault, ans)
        /\ UNCHANGED <<procs, started>>

CreateContact(F) ==
    /\ last = Idle
    /\ \E req \in Bodies, fault \in F :
            Handled("create", nextID, req, NoUpload, fault,
                CreateContactResp(db, nextID, req, fault))

UpdateContact(F) ==
    /\ last = Idle
    /\ \E id \in IdParams, req \in Bodies, fault \in F :
            Handled("update", id, req, NoUpload, fault,
                UpdateContactResp(db, id, req, fault))

DeleteContact(F) ==
    /\ last = Idle
    /\ \E id \in IdParams, fault \in F :
            Handled("delete", id, NoBody, NoUpload, fault,
                DeleteContactResp(db, id, fault))

GetContact(F) ==
    /\ last = Idle
    /\ \E id \in IdParams, fault \in F :
            Handled("get", id, NoBody, NoUpload, fault, GetContactResp(db, id, fault))

ListContacts(F) ==
    /\ last = Idle
    /\ \E fault \in F :
            Handled("list", 0, NoBody, NoUpload, fault, ListContactsResp(db, fault))

ImportContacts(F) ==
    /\ last = Idle
    /\ \E upload \in Uploads, fault \in F :
            Handled("import", nextID, NoBody, upload, fault,
                ImportContactsResp(db, nextID, upload, fault))

\* the answer is written to the client and the handler returns: the server
\* is ready for the next request
Respond ==
    /\ last # Idle
    /\ last' = Idle
    /\ prev' = db
    /\ UNCHANGED <<db, nextID, procs, started>>

\* requests one at a time, every database call succeeds
Next ==
    \/ CreateContact({"none"})
    \/ UpdateContact({"none"})
    \/ DeleteContact({"none"})
    \/ GetContact({"none"})
    \/ ListContacts({"none"})
    \/ ImportContacts({"none"})
    \/ Respond

Spec == Init /\ [][Next]_vars

\* requests one at a time, one database call of a request may fail
NextFaults ==
    \/ CreateContact(Faults)
    \/ UpdateContact(Faults)
    \/ DeleteContact(Faults)
    \/ GetContact(Faults)
    \/ ListContacts(Faults)
    \/ ImportContacts(Faults)
    \/ Respond

SpecFaults == Init /\ [][NextFaults]_vars

(***************************************************************************)
(* Vocabulary of the properties.                                           *)
(***************************************************************************)
\* the phone numbers contact c holds in store s, as primary or additional phone
HeldBy(s, c) ==
    {c.primaryPhone} \cup {r.number : r \in {x \in DOMAIN s.phones : x.contactID = c.id}}

\* the phone numbers of a request body, formatted to digits
BodyNumbers(body) ==
    {formatPhoneNumber(body.primaryPhone)} \cup
    {formatPhoneNumber(body.additionalPhones[i].number) :
        i \in 1..Len(body.additionalPhones)}

\* the last request was a POST create, or a PUT on a contact that was stored
WroteContact ==
    \/ last.op = "create"
    \/ last.op = "update" /\ \E c \in prev.contacts : c.id = last.id

\* a stored contact other than the one the last request wrote
OtherContacts == {c \in prev.contacts : last.op = "update" => c.id # last.id}

\* the body binds and passes Validate
ValidBody(body) == ShouldBindJSON(body) /\ Validate(body) = "ok"

Success == {200, 201}

(***************************************************************************)
(* Properties.                                                             *)
(***************************************************************************)
\* C1: a create or update request one of whose phones (formatted to digits)
\* is held, as primary or additional phone, by a different stored contact is
\* answered 400 or 409 and leaves the store unchanged.
C1_DuplicatePhoneAnswered400Or409 ==
    (/\ WroteContact
     /\ \E c \in OtherContacts : BodyNumbers(last.body) \cap HeldBy(prev, c) # {})
    => (last.status \in {400, 409} /\ db = prev)

\* the contacts table rows, without their keys, that the valid rows of an
\* upload describe
ValidRowContents(rows) ==
    {[firstName |-> r.firstName, lastName |-> r.lastName, email |-> r.email,
      primaryPhone |-> formatPhoneNumber(r.primaryPhone)] :
        r \in {rows[i] : i \in {j \in 1..Len(rows) : Validate(CsvContact(rows[j])) = "ok"}}}

WithoutKey(c) ==
    [firstName |-> c.firstName, lastName |-> c.lastName, email |-> c.email,
     primaryPhone |-> c.primaryPhone]

\* C2: an upload that parses is answered with success, exactly its rows that
\* pass Validate are added to the store, and "imported" is the number of
\* contacts added.
C2_ImportStoresValidRows ==
    (last.op = "import" /\ last.upload.kind = "ok")
    => LET added == db.contacts \ prev.contacts
       IN  /\ last.status \in Success
           /\ prev.contacts \subseteq db.contacts
           /\ {WithoutKey(c) : c \in added} = ValidRowContents(last.upload.rows)
           /\ last.imported = Cardinality(added)

\* C3: a request during which a repository call returned a persistence error
\* ends with status 500.
C3_PersistenceErrorAnswered500 ==
    last.fault # "none" => last.status = 500

\* some phone number, formatted to digits, occurs twice among the additional
\* phones of the body
RepeatsAdditionalPhone(body) ==
    \E i, j \in 1..Len(body.additionalPhones) :
        /\ i < j
        /\ formatPhoneNumber(body.additionalPhones[i].number)
             = formatPhoneNumber(body.additionalPhones[j].number)

\* nothing but its additional phones can make the last request fail: the
\* other fields are valid and no other contact holds its email or its phones
OnlyAdditionalPhonesAtIssue ==
    /\ ValidBody([last.body EXCEPT !.additionalPhones = <<>>])
    /\ \A c \in OtherContacts :
          /\ c.email # last.body.email
          /\ BodyNumbers(last.body) \cap HeldBy(prev, c) = {}

\* C4: a create or update request whose additional phones repeat a phone
\* number is answered 400 and leaves the store unchanged, whatever the type
\* tags and the punctuation of the repeated entries (stated for the requests
\* that no other rule rejects).
C4_RepeatedAdditionalPhoneAnswered400 ==
    (WroteContact /\ RepeatsAdditionalPhone(last.body) /\ OnlyAdditionalPhonesAtIssue)
    => (last.status = 400 /\ db = prev)

\* store s without contact id and its phone rows
WithoutContact(s, id) ==
    [contacts |-> {c \in s.contacts : c.id # id},
     phones |-> [r \in {x \in DOMAIN s.phones : x.contactID # id} |-> s.phones[r]]]

\* the status POST answers to the body of the last request in the store from
\* before the request with contact last.id removed
PostStatusWithoutTarget ==
    CreateContactResp(WithoutContact(prev, last.id), last.id, last.body, "none").status

\* C5: a PUT on a stored contact is rejected with 400, 409 (or 500, for a phone
\* another contact holds) exactly when POST of the same body is rejected with
\* that status in the store without the contact; a valid PUT that keeps the
\* contact's own email is not answered 409.
C5_UpdateRejectsLikeCreate ==
    (last.op = "update" /\ \E c \in prev.contacts : c.id = last.id)
    => /\ \A st \in {400, 409, 500} :
             (last.status = st) <=> (PostStatusWithoutTarget = st)
       /\ (/\ ValidBody(last.body)
           /\ \E c \in prev.contacts : c.id = last.id /\ c.email = last.body.email)
          => last.status \notin {400, 409}

\* a PUT that keeps the contact's email while another contact is stored is
\* accepted, and a PUT that takes another contact's email is answered 409
C5_Witness ==
    /\ last.op = "update"
    /\ last.status = 409
    /\ \E c \in prev.contacts : c.id = last.id /\ c.email # last.body.email
    /\ PostStatusWithoutTarget = 409

\* C6 as written: a POST whose email a stored contact holds is answered 409 and
\* leaves the store unchanged; a POST with a valid body whose email and phones
\* no stored contact holds is answered 201 and adds exactly one contact.
C6_CreateAnswers409Or201 ==
    last.op = "create"
    => /\ (\E c \in prev.contacts : c.email = last.body.email)
          => (last.status = 409 /\ db = prev)
       /\ (/\ ValidBody(last.body)
           /\ \A c \in prev.contacts :
                 /\ c.email # last.body.email
                 /\ BodyNumbers(last.body) \cap HeldBy(prev, c) = {})
          => /\ last.status = 201
             /\ prev.contacts \subseteq db.contacts
             /\ Cardinality(db.contacts \ prev.contacts) = 1

\* C6 amended: the same, for a POST whose body is valid in both halves (a body
\* that fails binding or validation is answered 400 before the email is
\* looked up).
C6_ValidCreateAnswers409Or201 ==
    (last.op = "create" /\ ValidBody(last.body))
    => /\ (\E c \in prev.contacts : c.email = last.body.email)
          => (last.status = 409 /\ db = prev)
       /\ (\A c \in prev.contacts :
              /\ c.email # last.body.email
              /\ BodyNumbers(last.body) \cap HeldBy(prev, c) = {})
          => /\ last.status = 201
             /\ prev.contacts \subseteq db.contacts
             /\ Cardinality(db.contacts \ prev.contacts) = 1

\* a valid POST with a stored contact's email was answered 409
C6_Witness ==
    /\ last.op = "create"
    /\ ValidBody(last.body)
    /\ \E c \in prev.contacts : c.email = last.body.email
    /\ last.status = 409

\* C7: after a DELETE /:id answered with success the store holds neither the
\* contact nor a phone row of it, every other contact and phone row is as
\* before, and GET /:id answers 404.
C7_DeleteRemovesContactAndPhones ==
    (last.op = "delete" /\ last.status \in Success)
    => /\ \A c \in db.contacts : c.id # last.id
       /\ \A r \in DOMAIN db.phones : r.contactID # last.id
       /\ db.contacts = {c \in prev.contacts : c.id # last.id}
       /\ \A r \in DOMAIN prev.phones :
             r.contactID # last.id
             => r \in DOMAIN db.phones /\ db.phones[r] = prev.phones[r]
       /\ DOMAIN db.phones \subseteq DOMAIN prev.phones
       /\ \A f \in {"none", "FindByID"} : GetContactResp(db, last.id, f).status = 404

\* a contact with phone rows was deleted while another contact was stored
C7_Witness ==
    /\ last.op = "delete"
    /\ last.status \in Success
    /\ \E r \in DOMAIN prev.phones : r.contactID = last.id
    /\ \E c \in prev.contacts : c.id # last.id

\* what GET and the list should show of the contact the last request wrote:
\* the submitted fields, the primary phone as digits, one nested phone per
\* element of additionalPhones
ExpectedView ==
    LET sent == FormatPhoneNumbers(last.body)
    IN  [id |-> last.id, firstName |-> last.body.firstName,
         lastName |-> last.body.lastName, email |-> last.body.email,
         primaryPhone |-> sent.primaryPhone,
         additionalPhones |-> PhoneRows(last.id, sent.additionalPhones)]

\* C8: after a successful create or update GET /:id and the list return the
\* contact with the submitted name and email, the primary phone as digits and
\* exactly one nested additional phone per submitted element.
C8_RoundTrip ==
    (last.op \in {"create", "update"} /\ last.status \in Success)
    => /\ GetContactResp(db, last.id, "none").resp = {ExpectedView}
       /\ ExpectedView \in ListContactsResp(db, "none").resp

\* C9: a create, update or delete that ends with a non-success status leaves
\* the stored contacts and phones exactly as before the request.
C9_AllOrNothing ==
    (last.op \in {"create", "update", "delete"} /\ last.status \notin Success)
    => db = prev

\* C10: no phone number is held, as primary or additional phone, by two
\* different contacts.
C10_NoPhoneHeldTwice ==
    \A c1, c2 \in db.contacts :
        c1.id # c2.id => HeldBy(db, c1) \cap HeldBy(db, c2) = {}

(***************************************************************************)
(* Requests handled at the same time.  Each goroutine runs its handler;    *)
(* one step is one repository call, and inside Create, Update and Delete   *)
(* one database statement, which the database runs atomically.  No         *)
(* statement fails for reasons outside the store (that is SpecFaults).     *)
(***************************************************************************)
\* Requests received in one run.
MaxRequests == 3

\* bodies of the concurrent requests: one contact without, with one and with
\* two additional phones, and another contact whose primary phone is that
\* additional phone
ConcAddl ==
    {<<>>,
     <<[number |-> PhoneB, type |-> TypeHome]>>,
     <<[number |-> PhoneB, type |-> TypeHome], [number |-> PhoneBp, type |-> TypeHome]>>}

ConcBodies ==
    {Body(NameAnn, NameLee, EmailA, PhoneA, addl) : addl \in ConcAddl}
    \cup {Body(NameBob, NameLee, EmailB, PhoneB, <<>>)}

\* AdditionalPhones is `gorm:"foreignKey:ContactID"` and AutoMigrate creates
\* the constraint: an insert of phone rows with contact_id = id fails when the
\* contacts table has no row id
ForeignKeyViolation_NotEnforced(s, id) == FALSE

ForeignKeyViolation(s, id) == \A c \in s.contacts : c.id # id

\* the same constraint (no ON DELETE action) refuses to delete a contact row
\* that phone rows reference
DeleteRestricted(s, id) == \E r \in DOMAIN s.phones : r.contactID = id

\* db.Create(contact.Contact) in Create: the row and its association in one
\* transaction
StmtCreateContact(s, id, contact) ==
    IF EmailUniqueViolation(s, contact.email, id) THEN [err |-> "unique", db |-> s]
    ELSE [err |-> "none", db |-> SaveWithAssociations(s, id, contact)]

\* db.Save(contact.Contact) in Update: UPDATE by primary key and the upsert of
\* the association in one transaction; when no row was updated and nothing
\* failed, Save inserts the row instead
StmtSaveContact(s, id, contact) ==
    IF EmailUniqueViolation(s, contact.email, id) THEN [err |-> "unique", db |-> s]
    ELSE IF Len(contact.additionalPhones) > 0 /\ ForeignKeyViolation(s, id)
         THEN [err |-> "foreign key", db |-> s]
    ELSE [err |-> "none", db |-> SaveWithAssociations(s, id, contact)]

\* db.Create(&contact.AdditionalPhones)
StmtInsertPhones(s, id, additionalPhones) ==
    IF ForeignKeyViolation(s, id) THEN [err |-> "foreign key", db |-> s]
    ELSE [err |-> "none", db |-> InsertPhones(s, id, additionalPhones)]

\* Unscoped().Delete(&types.Contact{}, id)
StmtDeleteContact(s, id) ==
    IF DeleteRestricted(s, id) THEN [err |-> "foreign key", db |-> s]
    ELSE [err |-> "none",
          db |-> [s EXCEPT !.contacts = {c \in s.contacts : c.id # id}]]

At(h, pc) == procs[h].pc = pc

\* c.JSON(status, ...) and return
Finish(h, status, err) ==
    procs' = [procs EXCEPT ![h] = [@ EXCEPT !.pc = "done", !.status = status,
                                            !.err = err]]

Goto(h, pc) == procs' = [procs EXCEPT ![h] = [@ EXCEPT !.pc = pc]]

\* CreateContact up to its first repository call
ReceiveCreate(h) ==
    /\ At(h, "idle")
    /\ started < MaxRequests
    /\ started' = started + 1
    /\ \E req \in ConcBodies :
          procs' = [procs EXCEPT ![h] =
              IF ~ShouldBindJSON(req) \/ Validate(req) # "ok"
              THEN [IdleProc EXCEPT !.op = "create", !.pc = "done", !.status = 400]
              ELSE [IdleProc EXCEPT !.op = "create", !.pc = "FindByEmail",
                                    !.contact = FormatPhoneNumbers(req)]]
    /\ UNCHANGED <<db, nextID, prev, last>>

\* UpdateContact up to its first repository call
ReceiveUpdate(h) ==
    /\ At(h, "idle")
    /\ started < MaxRequests
    /\ started' = started + 1
    /\ \E id \in 1..MaxContactID, req \in ConcBodies :
          procs' = [procs EXCEPT ![h] =
              IF ~ShouldBindJSON(req)
              THEN [IdleProc EXCEPT !.op = "update", !.id = id, !.pc = "done",
                                    !.status = 400]
              ELSE [IdleProc EXCEPT !.op = "update", !.id = id, !.pc = "FindByID",
                                    !.contact = req]]
    /\ UNCHANGED <<db, nextID, prev, last>>

\* DeleteContact up to its first repository call
ReceiveDelete(h) ==
    /\ At(h, "idle")
    /\ started < MaxRequests
    /\ started' = started + 1
    /\ \E id \in 1..MaxContactID :
          procs' = [procs EXCEPT ![h] =
              [IdleProc EXCEPT !.op = "delete", !.id = id, !.pc = "FindByID"]]
    /\ UNCHANGED <<db, nextID, prev, last>>

\* h.repo.FindByID in UpdateContact and DeleteContact, and in UpdateContact
\* the field update, Validate and FormatPhoneNumbers that follow it
StepFindByID(h) ==
    /\ At(h, "FindByID")
    /\ IF FindByID(db, procs[h].id) = {} THEN Finish(h, 404, "none")
       ELSE IF procs[h].op = "delete" THEN Goto(h, "DeletePhones")
       ELSE IF Validate(procs[h].contact) # "ok" THEN Finish(h, 400, "none")
       ELSE procs' = [procs EXCEPT ![h] =
                [@ EXCEPT !.pc = "FindByEmail",
                          !.contact = FormatPhoneNumbers(procs[h].contact)]]
    /\ UNCHANGED <<db, nextID, prev, last, started>>

\* h.repo.FindByEmail in CreateContact and UpdateContact
StepFindByEmail(h) ==
    /\ At(h, "FindByEmail")
    /\ LET p == procs[h]
           taken == IF p.op = "create"
                    THEN CreateEmailTaken(db, p.contact.email, "none")
                    ELSE UpdateEmailTaken(db, p.contact.email, p.id, "none")
       IN  IF taken THEN Finish(h, 409, "none")
           ELSE Goto(h, "CountContacts")
    /\ UNCHANGED <<db, nextID, prev, last, started>>

\* the number a CheckDuplicatePhone call of Create or Update looks for: the
\* primary phone when i = 0, else the i-th additional phone
CheckedNumber(p) ==
    IF p.i = 0 THEN p.contact.primaryPhone
    ELSE p.contact.additionalPhones[p.i].number

\* Create passes 0, Update contact.ID
ExcludedID(p) == IF p.op = "create" THEN 0 ELSE p.id

\* CheckDuplicatePhone: the Count over contacts
CountContacts(s, phoneNumber, excludeContactID) ==
    Cardinality({c \in s.contacts :
                    /\ c.primaryPhone = phoneNumber
                    /\ (excludeContactID > 0 => c.id # excludeContactID)})

\* CheckDuplicatePhone: the Count over phones
CountPhones(s, phoneNumber, excludeContactID) ==
    LET Match(r) == /\ r.number = phoneNumber
                    /\ (excludeContactID > 0 => r.contactID # excludeContactID)
    IN  BagCardinality(BagFilter(s.phones, Match))

\* a CheckDuplicatePhone call, first query
StepCountContacts(h) ==
    /\ At(h, "CountContacts")
    /\ IF CountContacts(db, CheckedNumber(procs[h]), ExcludedID(procs[h])) > 0
       THEN Finish(h, 500, "duplicate")
       ELSE Goto(h, "CountPhones")
    /\ UNCHANGED <<db, nextID, prev, last, started>>

\* a CheckDuplicatePhone call, second query; then the next call, or the write
StepCountPhones(h) ==
    /\ At(h, "CountPhones")
    /\ LET p == procs[h]
       IN  IF CountPhones(db, CheckedNumber(p), ExcludedID(p)) > 0
           THEN Finish(h, 500, "duplicate")
           ELSE IF p.i < Len(p.contact.additionalPhones)
                THEN procs' = [procs EXCEPT ![h] =
                         [@ EXCEPT !.i = p.i + 1, !.pc = "CountContacts"]]
           ELSE Goto(h, "SaveContact")
    /\ UNCHANGED <<db, nextID, prev, last, started>>

\* Create: db.Create(contact.Contact), which takes the next key
StepCreateContact(h) ==
    /\ At(h, "SaveContact")
    /\ procs[h].op = "create"
    /\ nextID <= MaxContactID
    /\ LET p == procs[h]
           r == StmtCreateContact(db, nextID, p.contact)
       IN  /\ db' = r.db
           /\ nextID' = IF r.err = "none" THEN nextID + 1 ELSE nextID
           /\ IF r.err # "none" THEN Finish(h, 500, r.err)
              ELSE procs' = [procs EXCEPT ![h] =
                       [@ EXCEPT !.id = nextID,
                                 !.pc = IF Len(p.contact.additionalPhones) > 0
                                        THEN "CreatePhones" ELSE "done",
                                 !.status = IF Len(p.contact.additionalPhones) > 0
                                            THEN 0 ELSE 201]]
    /\ UNCHANGED <<prev, last, started>>

\* Update: db.Save(contact.Contact)
StepSaveContact(h) ==
    /\ At(h, "SaveContact")
    /\ procs[h].op = "update"
    /\ LET p == procs[h]
           r == StmtSaveContact(db, p.id, p.contact)
       IN  /\ db' = r.db
           /\ IF r.err # "none" THEN Finish(h, 500, r.err)
              ELSE Goto(h, "DeletePhones")
    /\ UNCHANGED <<nextID, prev, last, started>>

\* Update and Delete: the DELETE of the contact's phone rows
StepDeletePhones(h) ==
    /\ At(h, "DeletePhones")
    /\ LET p == procs[h]
       IN  /\ db' = DeletePhonesOf(db, p.id)
           /\ IF p.op = "delete" THEN Goto(h, "DeleteContact")
              ELSE IF Len(p.contact.additionalPhones) > 0 THEN Goto(h, "CreatePhones")
              ELSE Finish(h, 200, "none")
    /\ UNCHANGED <<nextID, prev, last, started>>

\* Create and Update: db.Create(&contact.AdditionalPhones)
StepCreatePhones(h) ==
    /\ At(h, "CreatePhones")
    /\ LET p == procs[h]
           r == StmtInsertPhones(db, p.id, p.contact.additionalPhones)
       IN  /\ db' = r.db
           /\ IF r.err # "none" THEN Finish(h, 500, r.err)
              ELSE Finish(h, IF p.op = "create" THEN 201 ELSE 200, "none")
    /\ UNCHANGED <<nextID, prev, last, started>>

\* Delete: the DELETE of the contact row
StepDeleteContact(h) ==
    /\ At(h, "DeleteContact")
    /\ LET r == StmtDeleteContact(db, procs[h].id)
       IN  /\ db' = r.db
           /\ IF r.err # "none" THEN Finish(h, 500, r.err)
              ELSE Finish(h, 200, "none")
    /\ UNCHANGED <<nextID, prev, last, started>>

\* the handler has answered and returns; the goroutine serves the next request
Return(h) ==
    /\ At(h, "done")
    /\ procs' = [procs EXCEPT ![h] = IdleProc]
    /\ UNCHANGED <<db, nextID, prev, last, started>>

NextConcurrent ==
    \/ \E h \in Handlers : ReceiveCreate(h)
    \/ \E h \in Handlers : ReceiveUpdate(h)
    \/ \E h \in Handlers : ReceiveDelete(h)
    \/ \E h \in Handlers : StepFindByID(h)
    \/ \E h \in Handlers : StepFindByEmail(h)
    \/ \E h \in Handlers : StepCountContacts(h)
    \/ \E h \in Handlers : StepCountPhones(h)
    \/ \E h \in Handlers : StepCreateContact(h)
    \/ \E h \in Handlers : StepSaveContact(h)
    \/ \E h \in Handlers : StepDeletePhones(h)
    \/ \E h \in Handlers : StepCreatePhones(h)
    \/ \E h \in Handlers : StepDeleteContact(h)
    \/ \E h \in Handlers : Return(h)

SpecConcurrent == Init /\ [][NextConcurrent]_vars

\* every request received has been answered
AllCompleted == \A h \in Handlers : procs[h].pc \in {"idle", "done"}

\* a phone row whose contact_id is the key of no stored contact
OrphanPhones == {r \in DOMAIN db.phones : \A c \in db.contacts : c.id # r.contactID}

\* C11: under every interleaving of the repository steps of concurrently
\* handled create, update and delete requests, once all requests have
\* completed every stored additional-phone row has the ID of a stored contact.
C11_NoOrphanPhones == AllCompleted => OrphanPhones = {}

\* a DELETE /:id and a PUT /:id on one contact overlapped: the DELETE removed
\* the contact after the PUT had found it, and the PUT's insert of its phone
\* rows was refused
C11_Witness ==
    /\ AllCompleted
    /\ \E h1, h2 \in Handlers :
          /\ procs[h1].op = "update" /\ procs[h1].pc = "done"
          /\ procs[h1].status = 500 /\ procs[h1].err = "foreign key"
          /\ procs[h2].op = "delete" /\ procs[h2].pc = "done"
          /\ procs[h2].status = 200
          /\ procs[h2].id = procs[h1].id

====
